---------------------------- MODULE Spec2Model ----------------------------
(***************************************************************************)
(* Model of the extraction-and-summarization pipeline of src/app.py:       *)
(* summarize, get_keywords, fetch_article, fetch_category and the session  *)
(* handlers that call them.                                                *)
(*                                                                         *)
(* Text is modelled as sequences of one-character strings, so that         *)
(* lower(), capitalize(), substring tests, split() and join() are          *)
(* computed rather than assumed.                                           *)
(***************************************************************************)
EXTENDS Naturals, Integers, Sequences, FiniteSets, TLC

VARIABLES summ, kw, art, cat, sess

vars == <<summ, kw, art, cat, sess>>

-----------------------------------------------------------------------------
(* Generic sequence helpers.                                               *)

Range(s) == {s[i] : i \in 1..Len(s)}

SeqsUpTo(S, k) == UNION {[1..m -> S] : m \in 0..k}

Min2(a, b) == IF a < b THEN a ELSE b

\* Python slice s[a:b] for 0 <= a, 0 <= b (0-based, end exclusive).
Slice(s, a, b) ==
    LET lo == Min2(a, Len(s))
        hi == Min2(b, Len(s))
    IN  IF hi <= lo THEN << >> ELSE [i \in 1..(hi - lo) |-> s[lo + i]]

\* The ascending enumeration of a finite set of naturals: sorted(S).
RECURSIVE SortedSeq(_)
SortedSeq(S) ==
    IF S = {} THEN << >>
    ELSE LET m == CHOOSE x \in S : \A y \in S : x <= y
         IN  <<m>> \o SortedSeq(S \ {m})

\* sub is a subsequence of full: some strictly increasing choice of
\* positions of full spells sub.
IsSubsequence(sub, full) ==
    \E f \in [1..Len(sub) -> 1..Len(full)] :
        /\ \A i \in 1..Len(sub) : full[f[i]] = sub[i]
        /\ \A i, j \in 1..Len(sub) : i < j => f[i] < f[j]

-----------------------------------------------------------------------------
(* summarize(text, n)                                      app.py 353-371  *)

MaxSents == 3
MaxN == 2
MaxScore == 2

\* len(sents[0].split()) < 30
LeadMaxWords == 30

\* A sentence as sent_tokenize returns it: its text (a tag) and the number
\* of whitespace-separated words in it.
SentPool ==
    { [t |-> "a", w |-> 5], [t |-> "b", w |-> 29], [t |-> "c", w |-> 30] }

\* scores[0] *= 1.3, in tenths: the cosine similarities are raw levels
\* 0..MaxScore, compared after the lead bonus.
Boosted(scores) ==
    [i \in 1..Len(scores) |-> IF i = 1 THEN scores[i] * 13 ELSE scores[i] * 10]

\* scores.argsort()[-n:] as a set of (1-based) positions.  argsort leaves the
\* order of equal scores open, so every tail that some ascending order of the
\* scores produces is possible.  In Python -0 == 0, so [-0:] is the whole
\* array.
ArgsortTail(sc, n) ==
    LET L == Len(sc)
        k == IF n = 0 THEN L ELSE Min2(n, L)
    IN  { T \in SUBSET (1..L) :
            /\ Cardinality(T) = k
            /\ \A i \in T : \A j \in (1..L) \ T : sc[i] >= sc[j] }

\* Mutant: the short-document test written with < instead of <=.
ShortDocumentStrict(sents, n) == Len(sents) < n

\* if len(sents) <= n
ShortDocument(sents, n) == Len(sents) <= n

\* Mutant: the selection left in score order's reverse, not re-sorted by
\* position.
RECURSIVE Descending(_)
Descending(S) ==
    IF S = {} THEN << >>
    ELSE LET m == CHOOSE x \in S : \A y \in S : x >= y
         IN  <<m>> \o Descending(S \ {m})

\* sorted(top.tolist())
InOrder(top) == SortedSeq(top)

\* Mutant: the word limit off by one.
LeadIsShortOffByOne(s) == s.w < LeadMaxWords - 1

\* len(sents[0].split()) < 30
LeadIsShort(s) == s.w < LeadMaxWords

\* if 0 not in top and <lead is short>: [sents[0]] + summary_sents[1:]
WithLead(sents, top, picked) ==
    IF 1 \notin top /\ LeadIsShort(sents[1])
    THEN <<1>> \o Tail(picked)
    ELSE picked

\* except: return ' '.join(sents[:n])
Fallback(sents, n) == [i \in 1..Min2(n, Len(sents)) |-> i]

\* The positions of the sentences that summarize joins with ' ', for one
\* outcome of the vectorizer (vecFails) and of argsort (top).
SummarizePicked(sents, n, vecFails, top) ==
    IF ShortDocument(sents, n) THEN [i \in 1..Len(sents) |-> i]
    ELSE IF vecFails THEN Fallback(sents, n)
    ELSE WithLead(sents, top, InOrder(top))

SummarizePath(sents, n, vecFails) ==
    IF ShortDocument(sents, n) THEN "short"
    ELSE IF vecFails THEN "fallback" ELSE "scored"

SummInputs ==
    { [sents |-> s, n |-> n, scores |-> sc] :
        s \in SeqsUpTo(SentPool, MaxSents), n \in 0..MaxN,
        sc \in SeqsUpTo(0..MaxScore, MaxSents) }

SummIdle ==
    [pc |-> "idle", sents |-> << >>, n |-> 0, scores |-> << >>,
     path |-> "none", top |-> {}, picked |-> << >>, ret |-> << >>]

SummInit ==
    \E x \in SummInputs :
        /\ Len(x.scores) = Len(x.sents)
        /\ summ = [SummIdle EXCEPT !.pc = "call", !.sents = x.sents,
                                   !.n = x.n, !.scores = x.scores]

\* One call of summarize: the vectorizer raises or not (it always raises on
\* an empty list of sentences: empty vocabulary), and argsort settles the
\* order of equal scores one way or another.
Summarize ==
    /\ summ.pc = "call"
    /\ \E vecFails \in {f \in BOOLEAN : summ.sents = << >> => f} :
       \E top \in ArgsortTail(Boosted(summ.scores), summ.n) :
          LET path   == SummarizePath(summ.sents, summ.n, vecFails)
                 picked == SummarizePicked(summ.sents, summ.n, vecFails, top)
          IN  summ' = [summ EXCEPT
                         !.pc = "ret",
                         !.path = path,
                         !.top = IF path = "scored" THEN top ELSE {},
                         !.picked = picked,
                         !.ret = [i \in 1..Len(picked) |-> summ.sents[picked[i]]]]
    /\ UNCHANGED <<kw, art, cat, sess>>

-----------------------------------------------------------------------------
(* Characters and strings.                                                 *)

Uppers ==
    <<"A","B","C","D","E","F","G","H","I","J","K","L","M",
      "N","O","P","Q","R","S","T","U","V","W","X","Y","Z">>

Lowers ==
    <<"a","b","c","d","e","f","g","h","i","j","k","l","m",
      "n","o","p","q","r","s","t","u","v","w","x","y","z">>

Letters == Range(Uppers) \cup Range(Lowers)

ToLower ==
    [c \in Range(Uppers) |-> Lowers[CHOOSE i \in 1..26 : Uppers[i] = c]]

ToUpper ==
    [c \in Range(Lowers) |-> Uppers[CHOOSE i \in 1..26 : Lowers[i] = c]]

LowerChar(c) == IF c \in DOMAIN ToLower THEN ToLower[c] ELSE c

UpperChar(c) == IF c \in DOMAIN ToUpper THEN ToUpper[c] ELSE c

\* str.lower()
Lower(s) == [i \in 1..Len(s) |-> LowerChar(s[i])]

\* str.capitalize()
Capitalize(s) ==
    [i \in 1..Len(s) |-> IF i = 1 THEN UpperChar(s[i]) ELSE LowerChar(s[i])]

\* str.isalpha()
IsAlpha(s) ==
    /\ Len(s) > 0
    /\ \A i \in 1..Len(s) : s[i] \in Letters

\* a in b, for strings
IsSubstr(a, b) ==
    \E i \in 0..(Len(b) - Len(a)) : \A j \in 1..Len(a) : b[i + j] = a[j]

\* s.startswith(p)
StartsWith(s, p) == Len(p) <= Len(s) /\ \A j \in 1..Len(p) : s[j] = p[j]

\* sep.join(parts), sep a string
RECURSIVE Join(_, _)
Join(parts, sep) ==
    IF parts = << >> THEN << >>
    ELSE IF Len(parts) = 1 THEN parts[1]
    ELSE parts[1] \o sep \o Join(Tail(parts), sep)

\* s.split(c), c one character: empty fields are kept.
RECURSIVE SplitOn(_, _)
SplitOn(s, c) ==
    IF \A i \in 1..Len(s) : s[i] # c THEN <<s>>
    ELSE LET p == CHOOSE i \in 1..Len(s) :
                     s[i] = c /\ \A j \in 1..(i - 1) : s[j] # c
         IN  <<SubSeq(s, 1, p - 1)>> \o SplitOn(SubSeq(s, p + 1, Len(s)), c)

\* s.split(): fields between runs of blanks, empty fields dropped.
SplitBlank(s) == SelectSeq(SplitOn(s, " "), LAMBDA f : f # << >>)

-----------------------------------------------------------------------------
(* get_keywords(text, n)                                   app.py 249-274  *)

MaxTokens == 4
MaxKwN == 3

\* len(w) >= 4
MinWordLen == 4

w_rain == <<"R","a","i","n">>
w_train == <<"t","r","a","i","n">>
w_coal == <<"c","o","a","l">>
w_oil == <<"o","i","l">>
w_said == <<"s","a","i","d">>
w_2024 == <<"2","0","2","4">>
w_climate == <<"c","l","i","m","a","t","e">>
w_change == <<"c","h","a","n","g","e">>
w_policy == <<"p","o","l","i","c","y">>
w_debate == <<"d","e","b","a","t","e">>

\* The tokens word_tokenize can deliver in the bounded texts.
Vocab == {w_rain, w_train, w_coal, w_oil, w_said, w_2024}

\* "climate change climate change policy climate change debate"
ClimateText ==
    <<w_climate, w_change, w_climate, w_change, w_policy,
      w_climate, w_change, w_debate>>

\* "coal policy debate climate change debate policy coal climate change"
TruncationText ==
    <<w_coal, w_policy, w_debate, w_climate, w_change,
      w_debate, w_policy, w_coal, w_climate, w_change>>

\* stops.update([...]): the words the function adds to the English list.
DomainStops ==
    { <<"s","a","i","d">>, <<"n","e","w">>, <<"y","e","a","r">>,
      <<"p","e","o","p","l","e">>, <<"t","i","m","e">>, <<"d","a","y">>,
      <<"a","l","s","o">>, <<"w","o","u","l","d">>, <<"c","o","u","l","d">>,
      <<"r","e","p","o","r","t">>, <<"n","e","w","s">> }

\* stopwords.words('english'), as far as the bounded texts can meet it.
EnglishStops ==
    { <<"t","h","e">>, <<"t","h","a","t">>, <<"w","i","t","h">>,
      <<"t","h","i","s">>, <<"f","r","o","m">> }

Stops == EnglishStops \cup DomainStops

\* Mutant: the stopword test left out.
KeepWordNoStops(w) == Len(w) >= MinWordLen /\ IsAlpha(w)

\* len(w) >= 4 and w.isalpha() and w not in stops
KeepWord(w) == Len(w) >= MinWordLen /\ IsAlpha(w) /\ w \notin Stops

\* filtered: the text lower-cased, tokenized, filtered.
Filtered(tokens) ==
    SelectSeq([i \in 1..Len(tokens) |-> Lower(tokens[i])], KeepWord)

\* ngrams(filtered, 2), each pair joined with ' '
Bigrams(f) ==
    IF Len(f) < 2 THEN << >>
    ELSE [i \in 1..(Len(f) - 1) |-> f[i] \o <<" ">> \o f[i + 1]]

\* Counter(items)[x]
Count(items, x) == Cardinality({i \in 1..Len(items) : items[i] = x})

\* The keys of Counter(items), in insertion (first occurrence) order.
RECURSIVE Keys(_)
Keys(items) ==
    IF items = << >> THEN << >>
    ELSE LET init == SubSeq(items, 1, Len(items) - 1)
             last == items[Len(items)]
         IN  IF last \in Range(init) THEN Keys(init)
             ELSE Keys(init) \o <<last>>

\* sorted(recs, key=score, reverse=True): descending and stable.
RECURSIVE SortDesc(_)
SortDesc(recs) ==
    IF recs = << >> THEN << >>
    ELSE LET p == CHOOSE i \in 1..Len(recs) :
                     /\ \A j \in 1..Len(recs) : recs[j].s <= recs[i].s
                     /\ \A j \in 1..(i - 1) : recs[j].s < recs[i].s
         IN  <<recs[p]>> \o
             SortDesc(SubSeq(recs, 1, p - 1) \o SubSeq(recs, p + 1, Len(recs)))

\* Counter(items).most_common(k): (key, count) pairs, most frequent first,
\* equal counts in insertion order.
MostCommon(items, k) ==
    LET ks  == Keys(items)
        all == SortDesc([i \in 1..Len(ks) |-> [k |-> ks[i], s |-> Count(items, ks[i])]])
    IN  Slice(all, 0, k)

\* ' '.join([x.capitalize() for x in b.split()])
CapWords(b) ==
    LET ws == SplitBlank(b)
    IN  Join([i \in 1..Len(ws) |-> Capitalize(ws[i])], <<" ">>)

\* if f >= 2
MinFreq == 2

UniWeight == 2

BiWeight == 4

\* cands: unigram candidates, then bigram candidates.
Cands(f, n) ==
    LET uni == SelectSeq(MostCommon(f, n * 3), LAMBDA c : c.s >= MinFreq)
        bi  == SelectSeq(MostCommon(Bigrams(f), n * 2), LAMBDA c : c.s >= MinFreq)
    IN  [i \in 1..Len(uni) |-> [k |-> Capitalize(uni[i].k), s |-> uni[i].s * UniWeight]]
        \o [i \in 1..Len(bi) |-> [k |-> CapWords(bi[i].k), s |-> bi[i].s * BiWeight]]

\* Mutant: only "kl in u.lower()" is tested.
OverlapsOneWay(k, u) == IsSubstr(Lower(k), Lower(u))

\* kl in u.lower() or u.lower() in kl
Overlaps(k, u) == IsSubstr(Lower(k), Lower(u)) \/ IsSubstr(Lower(u), Lower(k))

\* The loop over cands that fills unique (seen holds exactly the lower-cased
\* phrases of unique, so its test is implied by the overlap test).
RECURSIVE Unique(_)
Unique(cands) ==
    IF cands = << >> THEN << >>
    ELSE LET init == Unique(SubSeq(cands, 1, Len(cands) - 1))
             c    == cands[Len(cands)]
         IN  IF \E i \in 1..Len(init) : Overlaps(c.k, init[i].k)
             THEN init ELSE init \o <<c>>

\* unique.sort(key=lambda x: x[1], reverse=True); unique[:n]
Ranked(cands, n) == Slice(SortDesc(Unique(cands)), 0, n)

\* The scored phrases get_keywords ranks, when no step raises.
KeywordRecs(tokens, n) ==
    LET f == Filtered(tokens)
    IN  IF f = << >> THEN << >> ELSE Ranked(Cands(f, n), n)

\* What get_keywords returns: the phrases, or [] from the bare except.
GetKeywords(tokens, n, raises) ==
    IF raises THEN << >>
    ELSE LET r == KeywordRecs(tokens, n) IN [i \in 1..Len(r) |-> r[i].k]

KwInputs ==
    { [text |-> t, n |-> n] : t \in SeqsUpTo(Vocab, MaxTokens), n \in 0..MaxKwN }
    \cup { [text |-> ClimateText, n |-> 5], [text |-> TruncationText, n |-> 1] }

KwIdle == [pc |-> "idle", text |-> << >>, n |-> 0, raised |-> FALSE, ret |-> << >>]

KwInit ==
    \E x \in KwInputs : kw = [KwIdle EXCEPT !.pc = "call", !.text = x.text, !.n = x.n]

\* One call of get_keywords; any step inside the try may raise.
Keywords ==
    /\ kw.pc = "call"
    /\ \E raises \in BOOLEAN :
          kw' = [kw EXCEPT !.pc = "ret", !.raised = raises,
                           !.ret = GetKeywords(kw.text, kw.n, raises)]
    /\ UNCHANGED <<summ, art, cat, sess>>

-----------------------------------------------------------------------------
(* fetch_article(url)                                      app.py 276-315  *)

MaxParas == 2
MaxConts == 1

\* if len(pt) > 30
MinParaLen == 30

\* if len(text) > 300: break
ContainerEnough == 300

\* if len(text) < 200
FallbackBelow == 200

\* if len(text) > 500: break
PageEnough == 500

\* if text and len(text) > 150
MinContentLen == 150

\* arts[:3]
MaxContainers == 3

\* A <p> element: the length of p.get_text(strip=True), and how many of its
\* characters the whitespace normalization ' '.join(text.split()) removes
\* (runs of blanks and line breaks inside the paragraph).
ParaPool ==
    { [len |-> 30, ws |-> 0], [len |-> 150, ws |-> 0], [len |-> 151, ws |-> 0],
      [len |-> 151, ws |-> 1], [len |-> 320, ws |-> 0] }

RECURSIVE SumLen(_)
SumLen(ps) == IF ps = << >> THEN 0 ELSE ps[1].len + 1 + SumLen(Tail(ps))

RECURSIVE SumWs(_)
SumWs(ps) == IF ps = << >> THEN 0 ELSE ps[1].ws + SumWs(Tail(ps))

\* len(text), text being the kept paragraphs, each followed by ' '.
RawLen(ps) == SumLen(ps)

\* len(' '.join(text.split())): the trailing blank and the surplus
\* whitespace inside the paragraphs are gone.
NormLen(ps) == IF ps = << >> THEN 0 ELSE SumLen(ps) - 1 - SumWs(ps)

\* if len(pt) > 30: text += pt + ' '
AddPara(text, p) == IF p.len > MinParaLen THEN Append(text, p) ELSE text

\* for p in ps: <AddPara>      (the inner loop over one container)
RECURSIVE AddAll(_, _)
AddAll(text, ps) ==
    IF ps = << >> THEN text ELSE AddAll(AddPara(text, ps[1]), Tail(ps))

\* for a in arts[:3]: <AddAll>; if len(text) > 300: break
RECURSIVE FromContainers(_, _)
FromContainers(text, arts) ==
    IF arts = << >> THEN text
    ELSE LET t == AddAll(text, arts[1])
         IN  IF RawLen(t) > ContainerEnough THEN t
             ELSE FromContainers(t, Tail(arts))

\* for p in soup.find_all('p'): <AddPara>; if len(text) > 500: break
RECURSIVE FromPage(_, _)
FromPage(text, ps) ==
    IF ps = << >> THEN text
    ELSE LET t == AddPara(text, ps[1])
         IN  IF RawLen(t) > PageEnough THEN t ELSE FromPage(t, Tail(ps))

\* The paragraphs that make up text when line 307 normalizes it.
BodyText(page) ==
    LET arts == [i \in 1..Len(page.conts) |->
                    [j \in 1..Len(page.conts[i]) |-> page.paras[page.conts[i][j]]]]
        t1   == FromContainers(<< >>, Slice(arts, 0, MaxContainers))
    IN  IF RawLen(t1) < FallbackBelow THEN FromPage(t1, page.paras) ELSE t1

\* Mutant: the gate written with >= instead of >.
ContentValidInclusive(n) == n >= MinContentLen

\* if text and len(text) > 150
ContentValid(n) == n > MinContentLen

\* title: the h1 text; an absent or empty one is replaced by
\* clean_title("", text), which never returns an empty string.
TitleOf(page, text) ==
    IF page.h1 \in {"none", "empty"} /\ text # << >> THEN "cleaned"
    ELSE IF page.h1 \in {"none", "empty"} THEN "Article"
    ELSE page.h1

None == [none |-> TRUE]

\* What fetch_article returns for the page the url serves: a record, or None
\* when the request or the parse raises or the text is too short.
FetchArticle(url, page) ==
    IF page.status # "ok" THEN None
    ELSE LET text == BodyText(page)
         IN  IF text # << >> /\ ContentValid(NormLen(text))
             THEN [url |-> url, title |-> TitleOf(page, text),
                   content |-> text, length |-> NormLen(text)]
             ELSE None

\* The paragraphs a container holds are paragraphs of the page, in document
\* order: a container is a set of positions of page.paras.
Containers(n) == { SortedSeq(S) : S \in SUBSET (1..n) }

\* The title sources of the document head: the og:title meta tag, the title
\* meta tag and the title element, each absent ("none") or holding a text.
HeadOf(og, meta, doc) == [og |-> og, meta |-> meta, doc |-> doc]

NoHead == HeadOf("none", "none", "none")

ErrorPage ==
    [status |-> "error", head |-> NoHead, h1 |-> "none", paras |-> << >>,
     conts |-> << >>]

PageOf(h1, paras, conts) ==
    [status |-> "ok", head |-> NoHead, h1 |-> h1, paras |-> paras,
     conts |-> conts]

WithHead(page, head) == [page EXCEPT !.head = head]

P30 == [len |-> 30, ws |-> 0]
P150 == [len |-> 150, ws |-> 0]
P151 == [len |-> 151, ws |-> 0]
P320 == [len |-> 320, ws |-> 0]

\* Pages beyond the bounded ones: four matching containers (arts[:3] cuts the
\* fourth), a second container after the first passed 300 characters, and a
\* page scan that stops after 500 characters.
ExtraPages ==
    { PageOf("h1", <<P150, P30, P30, P151>>, << <<1>>, <<2>>, <<3>>, <<4>> >>),
      PageOf("h1", <<P320, P151>>, << <<1>>, <<2>> >>),
      PageOf("none", <<P320, P320, P151>>, << >>),
      PageOf("empty", <<P30, P30, P30>>, << <<1, 2, 3>> >>) }

ArtPages ==
    { PageOf(h, ps, cs) :
        h \in {"none", "empty", "h1"},
        ps \in SeqsUpTo(ParaPool, MaxParas),
        cs \in SeqsUpTo(Containers(MaxParas), MaxConts) }

\* Pages of one long paragraph with every combination of title sources.
TitlePages ==
    { WithHead(PageOf(h, <<P320>>, << <<1>> >>), HeadOf(og, meta, doc)) :
        h \in {"none", "empty", "h1"}, og \in {"none", "og"},
        meta \in {"none", "meta"}, doc \in {"none", "doc"} }

ArtInputs ==
    { pg \in ArtPages :
        \A i \in 1..Len(pg.conts) : Range(pg.conts[i]) \subseteq 1..Len(pg.paras) }
    \cup ExtraPages \cup TitlePages \cup {ErrorPage}

u_art == <<"h","t","t","p",":","/","/","h","/","n","e","w","s","/","a","1">>

ArtIdle == [pc |-> "idle", url |-> << >>, page |-> ErrorPage, ret |-> None]

ArtInit ==
    \E pg \in ArtInputs :
        art = [ArtIdle EXCEPT !.pc = "call", !.url = u_art, !.page = pg]

\* One call of fetch_article.
FetchArticleCall ==
    /\ art.pc = "call"
    /\ art' = [art EXCEPT !.pc = "ret", !.ret = FetchArticle(art.url, art.page)]
    /\ UNCHANGED <<summ, kw, cat, sess>>

-----------------------------------------------------------------------------
(* fetch_category(url, max_articles, offset)               app.py 317-351  *)

MaxAnchors == 3
MaxArticles == 1
MaxOffset == 1

\* (max_articles + offset) * 4
ScanFactor == 4

\* offset + max_articles * 3
WindowFactor == 3

PositiveMarkers ==
    { <<"/","a","r","t","i","c","l","e">>, <<"/","s","t","o","r","y">>,
      <<"/","n","e","w","s">>, <<"/","2","0">>, <<"/","b","l","o","g">>,
      <<"/","p","o","s","t">> }

NegativeMarkers ==
    { <<"v","i","d","e","o">>, <<"g","a","l","l","e","r","y">>,
      <<"p","o","d","c","a","s","t">>,
      <<"l","i","v","e","-","r","e","p","o","r","t","i","n","g">>,
      <<"j","a","v","a","s","c","r","i","p","t",":">>, <<"#">> }

s_http == <<"h","t","t","p">>

\* The listing url and the hrefs of the bounded listing pages.
u_list == <<"h","t","t","p",":","/","/","h","/","w","o","r","l","d">>
h_news_a1 == <<"/","n","e","w","s","/","a","1">>
h_story_b2 == <<"/","s","t","o","r","y","/","b","2">>
h_video_x == <<"/","v","i","d","e","o","/","x">>
h_news_video == <<"/","n","e","w","s","/","v","i","d","e","o">>
h_abs_a1 == <<"h","t","t","p",":","/","/","h","/","n","e","w","s","/","a","1">>
h_rel_blog == <<"x","/","b","l","o","g","/","y">>
h_Post_9 == <<"/","P","o","s","t","/","9">>
h_about == <<"/","a","b","o","u","t">>

HrefPool ==
    {h_news_a1, h_story_b2, h_news_video, h_abs_a1, h_rel_blog, h_Post_9}

\* any(p in href.lower() for p in [...])
HasPositive(href) ==
    LET l == Lower(href) IN \E m \in PositiveMarkers : IsSubstr(m, l)

\* any(s in href.lower() for s in [...])
HasNegative(href) ==
    LET l == Lower(href) IN \E m \in NegativeMarkers : IsSubstr(m, l)

\* '/'.join(url.split('/')[:3])
BaseOf(url) == Join(Slice(SplitOn(url, "/"), 0, 3), <<"/">>)

\* Mutant: the exclusion test of line 329 left out.
LinkOfNoExclusion(url, href) ==
    IF HasPositive(href)
    THEN IF StartsWith(href, s_http) THEN <<href>>
         ELSE IF StartsWith(href, <<"/">>) THEN <<BaseOf(url) \o href>>
         ELSE << >>
    ELSE << >>

\* What one anchor adds to links: the body of the loop, lines 327-335.
LinkOf(url, href) ==
    IF HasPositive(href) /\ ~HasNegative(href)
    THEN IF StartsWith(href, s_http) THEN <<href>>
         ELSE IF StartsWith(href, <<"/">>) THEN <<BaseOf(url) \o href>>
         ELSE << >>
    ELSE << >>

\* "/news/a", "/news/b", ...: the i-th article href of a long listing page.
NewsHref(i) == <<"/","n","e","w","s","/">> \o <<Lowers[i]>>

\* Every href a modelled listing page can hold.
AllHrefs ==
    HrefPool \cup {h_video_x, h_about} \cup {NewsHref(i) : i \in 1..Len(Lowers)}

\* LinkOf under the listing url, tabulated once per href.
LinkTable == [h \in AllHrefs |-> LinkOf(u_list, h)]

AnchorLink(url, href) ==
    IF url = u_list /\ href \in AllHrefs THEN LinkTable[href]
    ELSE LinkOf(url, href)

\* if len(links) >= (max_articles + offset) * 4: break
ScanLimit(max, offset) == (max + offset) * ScanFactor

\* for a in soup.find_all('a', href=True): ...  with the break of line 336,
\* which is tested after every anchor.
RECURSIVE ScanAnchors(_, _, _, _)
ScanAnchors(url, anchors, links, limit) ==
    IF anchors = << >> THEN links
    ELSE LET l == links \o AnchorLink(url, anchors[1])
         IN  IF Len(l) >= limit THEN l
             ELSE ScanAnchors(url, Tail(anchors), l, limit)

\* Mutant: line 338 left out.
NoDedup(links) == links

\* list(dict.fromkeys(links))
Dedup(links) == Keys(links)

\* links[offset:offset + max_articles * 3]
Window(links, max, offset) == Slice(links, offset, offset + max * WindowFactor)

\* links after line 338: scanned and de-duplicated.
Found(url, anchors, max, offset) ==
    Dedup(ScanAnchors(url, anchors, << >>, ScanLimit(max, offset)))

\* links after line 339: the candidate links of the crawl.
Links(url, anchors, max, offset) ==
    Window(Found(url, anchors, max, offset), max, offset)

\* Mutant: the break of line 341 left out.
RECURSIVE CrawlNoStop(_, _, _, _)
CrawlNoStop(links, web, max, acc) ==
    IF links = << >> THEN acc
    ELSE LET a == FetchArticle(links[1], web[links[1]])
         IN  CrawlNoStop(Tail(links), web, max,
                         [articles |-> IF a = None THEN acc.articles
                                       ELSE Append(acc.articles, a),
                          fetched  |-> Append(acc.fetched, links[1])])

\* Mutant: a request that fails ends the loop instead of being skipped.
RECURSIVE CrawlAbortsOnError(_, _, _, _)
CrawlAbortsOnError(links, web, max, acc) ==
    IF links = << >> \/ Len(acc.articles) >= max THEN acc
    ELSE LET a == FetchArticle(links[1], web[links[1]])
             next == [articles |-> IF a = None THEN acc.articles
                                   ELSE Append(acc.articles, a),
                      fetched  |-> Append(acc.fetched, links[1])]
         IN  IF web[links[1]].status # "ok" THEN next
             ELSE CrawlAbortsOnError(Tail(links), web, max, next)

\* for link in links: if fetched >= max_articles: break; a = fetch_article(link);
\* if a: fetched += 1; articles.append(a).   acc holds articles and the links
\* passed to fetch_article so far.
RECURSIVE Crawl(_, _, _, _)
Crawl(links, web, max, acc) ==
    IF links = << >> \/ Len(acc.articles) >= max THEN acc
    ELSE LET a == FetchArticle(links[1], web[links[1]])
         IN  Crawl(Tail(links), web, max,
                   [articles |-> IF a = None THEN acc.articles
                                 ELSE Append(acc.articles, a),
                    fetched  |-> Append(acc.fetched, links[1])])

\* The pages the article urls can serve.
GoodPage == PageOf("h1", <<P320>>, << <<1>> >>)
ShortPage == PageOf("h1", <<P150>>, << >>)

WebPages == {GoodPage, ShortPage, ErrorPage}

\* anchors /news/a1, /news/a1, /video/x, /story/b2 with max_articles 5
ExampleAnchors == <<h_news_a1, h_news_a1, h_video_x, h_story_b2>>

\* Six anchors, the scan limit of max_articles 1 reached at the fourth.
LongAnchors == <<h_about, h_news_a1, h_news_a1, h_news_a1, h_story_b2, h_Post_9>>

CatInputs ==
    { [status |-> "ok", anchors |-> a, max |-> m, offset |-> o] :
        a \in SeqsUpTo(HrefPool, MaxAnchors), m \in 0..MaxArticles, o \in 0..MaxOffset }
    \cup { [status |-> "error", anchors |-> << >>, max |-> m, offset |-> o] :
            m \in 0..MaxArticles, o \in 0..MaxOffset }
    \cup { [status |-> "ok", anchors |-> ExampleAnchors, max |-> 5, offset |-> 0],
           [status |-> "ok", anchors |-> LongAnchors, max |-> 1, offset |-> 0] }

CatIdle ==
    [pc |-> "idle", url |-> << >>, status |-> "ok", anchors |-> << >>,
     max |-> 0, offset |-> 0, found |-> << >>, links |-> << >>,
     fetched |-> << >>,
     articles |-> << >>]

CatInit ==
    \E x \in CatInputs :
        cat = [CatIdle EXCEPT !.pc = "call", !.url = u_list, !.status = x.status,
                              !.anchors = x.anchors, !.max = x.max,
                              !.offset = x.offset]

\* One call of fetch_category whose listing request fails: except, return [].
FetchCategoryFails ==
    /\ cat.pc = "call"
    /\ cat.status # "ok"
    /\ cat' = [cat EXCEPT !.pc = "ret"]
    /\ UNCHANGED <<summ, kw, art, sess>>

\* One call of fetch_category on a listing page that loads; every candidate
\* link serves some page.
FetchCategory ==
    /\ cat.pc = "call"
    /\ cat.status = "ok"
    /\ LET found == Found(cat.url, cat.anchors, cat.max, cat.offset)
           links == Window(found, cat.max, cat.offset)
       IN  \E web \in [Range(links) -> WebPages] :
              LET r == Crawl(links, web, cat.max,
                             [articles |-> << >>, fetched |-> << >>])
              IN  cat' = [cat EXCEPT !.pc = "ret", !.links = links,
                                     !.found = found,
                                     !.fetched = r.fetched,
                                     !.articles = r.articles]
    /\ UNCHANGED <<summ, kw, art, sess>>

-----------------------------------------------------------------------------
(* The session: st.session_state and its handlers          app.py 476-656  *)

MaxListed == 10
MaxLoads == 2

\* fetch_category(url, 15, 0)
InitialArticles == 15

\* fetch_category(st.session_state.source[1], 10, st.session_state.offset)
MoreArticles == 10

\* st.session_state.offset += 10
OffsetStep == 10

\* LANGUAGES: the language codes of the selector.
LanguageCodes == {"en", "hi", "mr", "kn"}

NoSource == [name |-> "none", url |-> << >>]

TheSource == [name |-> "src", url |-> u_list]

\* A listing page of k article anchors after a repeated and an excluded one.
Listing(k) ==
    <<h_news_a1, h_news_a1, h_news_video>> \o [i \in 1..k |-> NewsHref(i)]

\* The pages the links serve during the session: the links of down fail.
WebOf(links, down) ==
    [l \in Range(links) |-> IF l \in down THEN ErrorPage ELSE GoodPage]

\* fetch_category(url, max, offset) against the session's listing page; ok
\* tells whether the listing request succeeds.
FetchCategoryOf(s, max, offset, ok) ==
    IF ~ok THEN [articles |-> << >>, fetched |-> << >>]
    ELSE LET links == Links(s.source.url, s.anchors, max, offset)
         IN  Crawl(links, WebOf(links, s.down), max,
                   [articles |-> << >>, fetched |-> << >>])

\* Mutant: the membership test of line 538 left out.
AppendAll(articles, new) == articles \o new

\* for a in new: if a['url'] not in [x['url'] for x in articles]: append(a)
RECURSIVE AppendNew(_, _)
AppendNew(articles, new) ==
    IF new = << >> THEN articles
    ELSE AppendNew(IF \E i \in 1..Len(articles) : articles[i].url = new[1].url
                   THEN articles ELSE Append(articles, new[1]),
                   Tail(new))

\* Mutant: line 510 left out.
OnLanguageKeepsCache(s, l) ==
    [s EXCEPT !.language = l, !.prev_language = l]

\* language = new_lang; prev_language = new_lang; translated_articles = {}
OnLanguage(s, l) ==
    [s EXCEPT !.language = l, !.prev_language = l, !.translated_articles = {}]

\* The cache keys f"{url}_{lang_code}_{kind}" one run of the article loop
\* writes: title and summary unless the language is "en", audio when the
\* speech request succeeds.
CacheKeys(articles, lang, tts) ==
    { [url |-> articles[i].url, lang |-> lang, kind |-> k] :
        i \in 1..Len(articles),
        k \in (IF lang # "en" THEN {"title", "summary"} ELSE {})
              \cup (IF tts THEN {"audio_b64"} ELSE {}) }

\* seen, again and initial are history fields: the links passed to
\* fetch_article by the crawls since the source was selected, those of them
\* the latest crawl fetched again, and whether the session so far is the
\* initial crawl followed by Load More crawls only.
SessIdle ==
    [anchors |-> << >>, down |-> {}, category |-> "none", source |-> NoSource,
     articles |-> << >>, offset |-> 0, language |-> "en",
     prev_language |-> "en", translated_articles |-> {},
     seen |-> {}, again |-> {}, initial |-> FALSE]

\* The session state after lines 476-491, with a listing page and the links
\* that fail.
SessInit ==
    \E k \in 0..MaxListed :
      \E down \in SUBSET Range(Links(u_list, Listing(k), InitialArticles, 0)) :
        /\ Cardinality(down) <= 1
        /\ sess = [SessIdle EXCEPT !.anchors = Listing(k), !.down = down]

\* A category button, lines 562-567.
SelectCategory ==
    /\ sess.category = "none"
    /\ sess' = [sess EXCEPT !.category = "World", !.articles = << >>,
                            !.offset = 0, !.translated_articles = {},
                            !.seen = {}, !.again = {}, !.initial = FALSE]
    /\ UNCHANGED <<summ, kw, art, cat>>

\* A source button, lines 576-580.
SelectSource ==
    /\ sess.category # "none" /\ sess.source = NoSource
    /\ \E ok \in BOOLEAN :
          LET s1 == [sess EXCEPT !.source = TheSource]
              r  == FetchCategoryOf(s1, InitialArticles, 0, ok)
          IN  sess' = [s1 EXCEPT !.articles = r.articles,
                                 !.seen = Range(r.fetched), !.again = {},
                                 !.initial = TRUE]
    /\ UNCHANGED <<summ, kw, art, cat>>

\* The Load More button, lines 533-540.
LoadMore ==
    /\ sess.category # "none" /\ sess.source # NoSource
    /\ sess.offset < MaxLoads * OffsetStep
    /\ \E ok \in BOOLEAN :
          LET offset == sess.offset + OffsetStep
              r      == FetchCategoryOf(sess, MoreArticles, offset, ok)
          IN  sess' = [sess EXCEPT !.offset = offset,
                                   !.articles = AppendNew(sess.articles, r.articles),
                                   !.again = Range(r.fetched) \cap sess.seen,
                                   !.seen = sess.seen \cup Range(r.fetched)]
    /\ UNCHANGED <<summ, kw, art, cat>>

\* The Refresh button, lines 528-532.
Refresh ==
    /\ sess.category # "none" /\ sess.source # NoSource
    /\ sess' = [sess EXCEPT !.offset = 0, !.articles = << >>,
                            !.translated_articles = {},
                            !.seen = {}, !.again = {}, !.initial = FALSE]
    /\ UNCHANGED <<summ, kw, art, cat>>

\* The Home button, lines 542-548.
Home ==
    /\ sess.category # "none" /\ sess.source # NoSource
    /\ sess' = [sess EXCEPT !.category = "none", !.source = NoSource,
                            !.articles = << >>, !.offset = 0,
                            !.translated_articles = {},
                            !.seen = {}, !.again = {}, !.initial = FALSE]
    /\ UNCHANGED <<summ, kw, art, cat>>

\* The language selector, lines 502-511.
SelectLanguage(l) ==
    /\ l # sess.prev_language
    /\ sess' = OnLanguage(sess, l)
    /\ UNCHANGED <<summ, kw, art, cat>>

\* One run of the article loop, lines 583-656; tts tells whether the speech
\* requests of the run succeed.
Render ==
    /\ sess.category # "none" /\ sess.source # NoSource
    /\ sess.articles # << >>
    /\ \E tts \in BOOLEAN :
          sess' = [sess EXCEPT !.translated_articles =
                      @ \cup CacheKeys(sess.articles, sess.language, tts)]
    /\ UNCHANGED <<summ, kw, art, cat>>

-----------------------------------------------------------------------------
(* Specifications: one per function, the inputs drawn by Init.             *)

SummStart ==
    SummInit /\ kw = KwIdle /\ art = ArtIdle /\ cat = CatIdle /\ sess = SessIdle

SummNext == Summarize

SummSpec == SummStart /\ [][SummNext]_vars

KwStart ==
    KwInit /\ summ = SummIdle /\ art = ArtIdle /\ cat = CatIdle /\ sess = SessIdle

KwNext == Keywords

KwSpec == KwStart /\ [][KwNext]_vars

ArtStart ==
    ArtInit /\ summ = SummIdle /\ kw = KwIdle /\ cat = CatIdle /\ sess = SessIdle

ArtNext == FetchArticleCall

ArtSpec == ArtStart /\ [][ArtNext]_vars

CatStart ==
    CatInit /\ summ = SummIdle /\ kw = KwIdle /\ art = ArtIdle /\ sess = SessIdle

CatNext == FetchCategory \/ FetchCategoryFails

CatSpec == CatStart /\ [][CatNext]_vars

SessStart ==
    SessInit /\ summ = SummIdle /\ kw = KwIdle /\ art = ArtIdle /\ cat = CatIdle

SessNext ==
    \/ SelectCategory
    \/ SelectSource
    \/ LoadMore
    \/ Refresh
    \/ Home
    \/ \E l \in LanguageCodes : SelectLanguage(l)
    \/ Render

SessSpec == SessStart /\ [][SessNext]_vars

-----------------------------------------------------------------------------
(* Properties of summarize, checked under SummSpec.                        *)

\* C1: every sentence summarize returns is a sentence of the input, and the
\* returned sentences stand in the order they have in the input, on the
\* short-document, the scored and the fallback path alike.
C1_OrderedSubset ==
    summ.pc = "ret" =>
        /\ IsSubsequence(summ.ret, summ.sents)
        /\ \A i \in 1..Len(summ.picked) : summ.picked[i] \in 1..Len(summ.sents)
        /\ \A i, j \in 1..Len(summ.picked) :
              i < j => summ.picked[i] < summ.picked[j]

\* The lead sentence was substituted into a scored selection of two.
C1_Witness ==
    /\ summ.pc = "ret" /\ summ.path = "scored"
    /\ 1 \notin summ.top /\ Len(summ.ret) = 2
    /\ summ.picked[1] = 1
    /\ summ.sents[1] # summ.sents[2] /\ summ.sents[2] # summ.sents[3]

\* C2: a content with at most n sentences comes back whole, sentence by
\* sentence in the original order, on the path that neither scores nor
\* selects.
C2_ShortReturnedWhole ==
    (summ.pc = "ret" /\ Len(summ.sents) <= summ.n) =>
        summ.ret = summ.sents /\ summ.path = "short"

\* A content of exactly n >= 1 sentences was returned.
C2_Witness ==
    /\ summ.pc = "ret" /\ summ.n >= 1 /\ Len(summ.sents) = summ.n
    /\ summ.ret = summ.sents

\* C3 (as claimed): for every n, 0 included, a content with more than n
\* sentences is summarized in exactly n sentences.
C3_ExactlyN ==
    (summ.pc = "ret" /\ Len(summ.sents) > summ.n) => Len(summ.ret) = summ.n

\* C4: with n >= 1 and more than n sentences, a first sentence of fewer than
\* 30 words is in the summary and opens it, whatever the scores.
C4_LeadOpens ==
    (/\ summ.pc = "ret" /\ summ.n >= 1 /\ Len(summ.sents) > summ.n
     /\ summ.sents[1].w < LeadMaxWords) =>
        /\ Len(summ.ret) >= 1
        /\ summ.picked[1] = 1
        /\ summ.ret[1] = summ.sents[1]

\* A 29-word first sentence that the scores did not select opens the summary.
C4_Witness ==
    /\ summ.pc = "ret" /\ summ.path = "scored" /\ summ.n >= 1
    /\ Len(summ.sents) > summ.n
    /\ summ.sents[1].w = LeadMaxWords - 1
    /\ 1 \notin summ.top
    /\ summ.picked[1] = 1

\* C15: when the first sentence is not among the top-scored sentences and
\* has fewer than 30 words, it takes the place of a selected sentence of the
\* smallest score, and every other selected sentence is kept.
C15_ReplacesLowestScored ==
    (/\ summ.pc = "ret" /\ summ.path = "scored" /\ summ.n >= 1
     /\ 1 \notin summ.top
     /\ summ.sents[1].w < LeadMaxWords) =>
        \E m \in summ.top :
            /\ \A j \in summ.top :
                  Boosted(summ.scores)[m] <= Boosted(summ.scores)[j]
            /\ Range(summ.picked) = {1} \cup (summ.top \ {m})

-----------------------------------------------------------------------------
(* Properties of get_keywords, checked under KwSpec.                       *)

\* C5: no returned phrase is, case-insensitively, a substring of another
\* returned phrase; so no phrase is returned twice.
C5_NoSubstringPair ==
    kw.pc = "ret" =>
        \A i, j \in 1..Len(kw.ret) :
            i # j => ~IsSubstr(Lower(kw.ret[i]), Lower(kw.ret[j]))

\* Two phrases were returned and a candidate phrase was suppressed although
\* the count left room for it.
C5_Witness ==
    /\ kw.pc = "ret" /\ Len(kw.ret) >= 2 /\ Len(kw.ret) < kw.n
    /\ Len(kw.text) <= MaxTokens
    /\ \E c \in Range(Cands(Filtered(kw.text), kw.n)) : c.k \notin Range(kw.ret)

\* C6 (as claimed): a bigram of two different words that occurs at least
\* twice is returned, capitalized, and neither of its words is returned on
\* its own (stated for counts that leave room for every candidate).
C6_BigramSurfaces ==
    (/\ kw.pc = "ret" /\ ~kw.raised /\ kw.n >= 1
     /\ Len(Cands(Filtered(kw.text), kw.n)) <= kw.n) =>
        LET f == Filtered(kw.text)
        IN  \A i \in 1..(Len(f) - 1) :
               (f[i] # f[i + 1] /\ Count(Bigrams(f), Bigrams(f)[i]) >= MinFreq) =>
                   /\ CapWords(Bigrams(f)[i]) \in Range(kw.ret)
                   /\ Capitalize(f[i]) \notin Range(kw.ret)
                   /\ Capitalize(f[i + 1]) \notin Range(kw.ret)

\* The candidates when no most_common limit is applied: every unigram and
\* every bigram of frequency >= 2.
AllCands(f) == Cands(f, Len(f))

\* C16: get_keywords(text, n) equals the procedure applied to all
\* candidates (every unigram and bigram of frequency >= 2, merged,
\* de-duplicated, sorted by score descending, top n), so limiting the
\* candidates to the n*3 most common unigrams and the n*2 most common bigrams
\* never changes the result; the result has at most n phrases.
C16_EqualsUntruncated ==
    (kw.pc = "ret" /\ ~kw.raised) =>
        LET r == Ranked(AllCands(Filtered(kw.text)), kw.n)
        IN  /\ Len(kw.ret) <= kw.n
            /\ kw.ret = [i \in 1..Len(r) |-> r[i].k]

\* C7: get_keywords always returns; it returns the empty sequence when a
\* step raises and when no alphabetic token of length >= 4 outside the
\* stopwords is in the text.
C7_EmptyNotError ==
    kw.pc = "ret" =>
        /\ kw.raised => kw.ret = << >>
        /\ (\A i \in 1..Len(kw.text) :
               LET w == Lower(kw.text[i])
               IN  ~(Len(w) >= MinWordLen /\ IsAlpha(w) /\ w \notin Stops))
           => kw.ret = << >>

\* A text of repeated tokens, none of which survives filtering, gave [].
C7_Witness ==
    /\ kw.pc = "ret" /\ ~kw.raised /\ kw.n >= 1
    /\ Len(kw.text) >= 2 /\ kw.text[1] = kw.text[2]
    /\ Filtered(kw.text) = << >>
    /\ kw.ret = << >>

-----------------------------------------------------------------------------
(* Properties of fetch_category's link list, checked under CatSpec.        *)

\* The positions of the anchors that put url l on the list.
AnchorsOf(l) ==
    { i \in 1..Len(cat.anchors) : AnchorLink(cat.url, cat.anchors[i]) = <<l>> }

FirstAnchorOf(l) == CHOOSE i \in AnchorsOf(l) : \A j \in AnchorsOf(l) : i <= j

QualifyingHrefs ==
    { cat.anchors[i] : i \in { j \in 1..Len(cat.anchors) :
                                 AnchorLink(cat.url, cat.anchors[j]) # << >> } }

UniqueInOrder(links) ==
    /\ \A i, j \in 1..Len(links) : i # j => links[i] # links[j]
    /\ \A i \in 1..Len(links) : AnchorsOf(links[i]) # {}
    /\ \A i, j \in 1..Len(links) :
          i < j => FirstAnchorOf(links[i]) < FirstAnchorOf(links[j])
    /\ Len(links) <= Cardinality(QualifyingHrefs)

\* C8: the link list holds each url once, in the order of first occurrence
\* among the anchors, and is no longer than the number of distinct
\* qualifying anchors; before and after the window is cut.
C8_UniqueFirstSeen ==
    (cat.pc = "ret" /\ cat.status = "ok") =>
        UniqueInOrder(cat.found) /\ UniqueInOrder(cat.links)

\* A page that repeats a qualifying anchor gave a list of two urls.
C8_Witness ==
    /\ cat.pc = "ret" /\ cat.status = "ok"
    /\ Len(cat.found) = 2 /\ Len(cat.links) = 2
    /\ \E i, j \in 1..Len(cat.anchors) :
          i < j /\ AnchorLink(cat.url, cat.anchors[i]) # << >>
                /\ AnchorLink(cat.url, cat.anchors[i]) = AnchorLink(cat.url, cat.anchors[j])

u_base == <<"h","t","t","p",":","/","/","h">>

\* The urls the claim admits for an href: the href itself if it is absolute,
\* the base and the href if it is root-relative, and only for an href with a
\* positive and without a negative marker.
AdmittedTable ==
    [h \in AllHrefs |->
        IF /\ \E m \in PositiveMarkers : IsSubstr(m, Lower(h))
           /\ \A m \in NegativeMarkers : ~IsSubstr(m, Lower(h))
        THEN (IF StartsWith(h, s_http) THEN {h} ELSE {})
             \cup (IF StartsWith(h, <<"/">>) THEN {u_base \o h} ELSE {})
        ELSE {}]

Admits(href, l) == l \in AdmittedTable[href]

\* C9: every discovered link comes from an anchor whose href has a positive
\* and no negative marker and is absolute (kept as it is) or root-relative
\* (prefixed with scheme and host of the listing url); and the anchors
\* /news/a1, /news/a1, /video/x, /story/b2 with max_articles 5, offset 0
\* give exactly the two links /news/a1 and /story/b2 under the base.
C9_OnlyQualifying ==
    (cat.pc = "ret" /\ cat.status = "ok") =>
        /\ \A k \in 1..Len(cat.found) :
              \E i \in 1..Len(cat.anchors) : Admits(cat.anchors[i], cat.found[k])
        /\ Range(cat.links) \subseteq Range(cat.found)
        /\ (cat.anchors = ExampleAnchors /\ cat.max = 5 /\ cat.offset = 0) =>
              cat.links = <<u_base \o h_news_a1, u_base \o h_story_b2>>

\* A page with an excluded, a relative and an absolute href was scanned and
\* only the absolute one was kept.
C9_Witness ==
    /\ cat.pc = "ret" /\ cat.status = "ok"
    /\ cat.anchors = <<h_news_video, h_rel_blog, h_abs_a1>>
    /\ cat.links = <<h_abs_a1>>

-----------------------------------------------------------------------------
(* Properties of fetch_article, checked under ArtSpec.                     *)

\* C10: fetch_article returns a record only for a normalized body text of
\* more than 150 characters: None for a text of 150 characters or fewer and
\* for a failed request or parse; every record's content is longer than 150.
C10_MinContent ==
    art.pc = "ret" =>
        /\ art.ret # None =>
              /\ art.page.status = "ok"
              /\ art.ret.content = BodyText(art.page)
              /\ art.ret.length = NormLen(art.ret.content)
              /\ art.ret.length > MinContentLen
        /\ art.page.status # "ok" => art.ret = None
        /\ NormLen(BodyText(art.page)) <= MinContentLen => art.ret = None

\* A page whose normalized text has exactly 150 characters gave None.
C10_Witness ==
    /\ art.pc = "ret" /\ art.page.status = "ok"
    /\ NormLen(BodyText(art.page)) = MinContentLen
    /\ art.ret = None

-----------------------------------------------------------------------------
(* Properties of the crawl loop of fetch_category, checked under CatSpec.  *)

\* The urls of the records a call returned, in order.
UrlsOf(articles) == [i \in 1..Len(articles) |-> articles[i].url]

\* The links passed to fetch_article that produced a record, in order.
Hits(fetched, articles) ==
    SelectSeq(fetched, LAMBDA l : l \in Range(UrlsOf(articles)))

\* C11: fetch_category visits the windowed links in discovery order, passes
\* each link to the extractor at most once, appends the records in that
\* order, and stops as soon as max_articles records are appended or the
\* links are exhausted: at most max_articles records are returned and no
\* link after the one that produced the max_articles-th record is fetched.
C11_OrderedBoundedCrawl ==
    (cat.pc = "ret" /\ cat.status = "ok") =>
        /\ Len(cat.fetched) <= Len(cat.links)
        /\ \A i \in 1..Len(cat.fetched) : cat.fetched[i] = cat.links[i]
        /\ \A i, j \in 1..Len(cat.fetched) :
              i # j => cat.fetched[i] # cat.fetched[j]
        /\ UrlsOf(cat.articles) = Hits(cat.fetched, cat.articles)
        /\ Len(cat.articles) <= cat.max
        /\ Len(cat.fetched) < Len(cat.links) => Len(cat.articles) = cat.max
        /\ (Len(cat.articles) = cat.max /\ cat.fetched # << >>) =>
              cat.fetched[Len(cat.fetched)] \in Range(UrlsOf(cat.articles))
        /\ cat.max = 0 => cat.fetched = << >>

\* A crawl that skipped a link, reached max_articles at the next one and
\* left a later candidate link unfetched.
C11_Witness ==
    /\ cat.pc = "ret" /\ cat.status = "ok"
    /\ cat.max >= 1
    /\ Len(cat.articles) = cat.max
    /\ Len(cat.fetched) > Len(cat.articles)
    /\ Len(cat.links) > Len(cat.fetched)

\* C12: a listing request that fails yields the empty sequence; a link
\* whose extraction returns None is skipped and the crawl goes on with the
\* next candidate link, so a crawl ends on a skipped link only when the
\* links are exhausted; every step of a call of fetch_category is a return
\* with a sequence of records.
C12_FailuresNeverAbort ==
    /\ [](/\ (cat.pc = "ret" /\ cat.status # "ok") =>
               cat.articles = << >> /\ cat.fetched = << >>
          /\ (cat.pc = "ret" /\ cat.status = "ok") =>
               /\ \A i \in 1..Len(cat.fetched) :
                     (cat.fetched[i] \notin Range(UrlsOf(cat.articles))
                        /\ i < Len(cat.links))
                     => Len(cat.fetched) > i
               /\ Len(cat.articles) < cat.max => cat.fetched = cat.links)
    /\ [][cat.pc = "call" =>
            /\ cat'.pc = "ret"
            /\ \A i \in 1..Len(cat'.articles) : cat'.articles[i] # None]_vars

\* A crawl that skipped its first link and returned the record of a later one.
C12_Witness ==
    /\ cat.pc = "ret" /\ cat.status = "ok"
    /\ Len(cat.fetched) >= 2
    /\ cat.fetched[1] \notin Range(UrlsOf(cat.articles))
    /\ cat.articles # << >>

-----------------------------------------------------------------------------
(* Properties of the title of fetch_article, checked under ArtSpec.        *)

\* The first element of vals that is a text, or dflt when there is none.
RECURSIVE FirstNonEmpty(_, _)
FirstNonEmpty(vals, dflt) ==
    IF vals = << >> THEN dflt
    ELSE IF vals[1] \notin {"none", "empty"} THEN vals[1]
    ELSE FirstNonEmpty(Tail(vals), dflt)

\* The title sources of a page in the claimed priority order.
TitleSources(page) == <<page.head.og, page.head.meta, page.head.doc, page.h1>>

\* C17: the title of a returned record is the first non-empty value among
\* the og:title meta tag, the title meta tag, the title element and the
\* first h1 (stated for pages where one of them holds a text); so a page
\* with an og:title (or a title element) and no h1 gets that value as its
\* title.
C17_TitlePriority ==
    (/\ art.pc = "ret" /\ art.ret # None
     /\ FirstNonEmpty(TitleSources(art.page), "Article") # "Article") =>
        art.ret.title = FirstNonEmpty(TitleSources(art.page), "Article")

-----------------------------------------------------------------------------
(* Properties of the session, checked under SessSpec.                      *)

\* C13: in a session made of the initial crawl fetch_category(url, 15, 0)
\* and Load More crawls fetch_category(url, 10, offset), offset advanced by
\* 10 each time, against an unchanged listing page, no link an earlier crawl
\* passed to fetch_article is fetched again by a later crawl.
C13_NoRefetch == sess.initial => sess.again = {}

\* C14: in every reachable session state the article list holds no two
\* records with the same url.
C14_UniqueUrls ==
    \A i, j \in 1..Len(sess.articles) :
        i # j => sess.articles[i].url # sess.articles[j].url

\* A Load More whose crawl returned a record whose url the list already held.
C14_Witness ==
    /\ sess.offset >= OffsetStep
    /\ \E l \in sess.again : l \in Range(UrlsOf(sess.articles))

\* C18: every entry of translated_articles is keyed by the selected
\* language, and the cache is empty after every language change, Refresh,
\* Home and category selection.
C18_CacheFollowsLanguage ==
    /\ [](\A e \in sess.translated_articles : e.lang = sess.language)
    /\ [][(\/ \E l \in LanguageCodes : SelectLanguage(l)
           \/ Refresh
           \/ Home
           \/ SelectCategory) => sess'.translated_articles = {}]_vars

\* Title, summary and audio entries cached under a language selected during
\* the session.
C18_Witness ==
    /\ sess.language # "en"
    /\ \E e \in sess.translated_articles : e.kind = "title"
    /\ \E e \in sess.translated_articles : e.kind = "audio_b64"

=============================================================================
